---- MODULE Spec2Model ----
(***************************************************************************)
(* Verification engine of the medicine-authenticity prototype              *)
(* (src/app.jsx): token codec, ledger match, duplicate-scan tracking and   *)
(* the recall / expiry rules of handleVerify.                              *)
(*                                                                         *)
(* Conventions of the model                                                *)
(*  - A JavaScript value is a record tagged by its type: JsNull,           *)
(*    Undefined, JsNum(n), JsStr(s), JsObj(f) with f a function from the   *)
(*    property names present to values.                                    *)
(*  - A token string is modelled by its layers: surrounding whitespace     *)
(*    (pad), whether the body is valid base64, whether the base64 text is  *)
(*    valid JSON, and the JSON value.  btoa / JSON.stringify build the     *)
(*    layers, atob / JSON.parse take them apart or throw.                  *)
(*  - A Date is [day, ms]: the day number (days since 1970-01-01) and the  *)
(*    millisecond of that day, in local wall-clock time.  It is the        *)
(*    millisecond count of the JS Date split at the day, which keeps the   *)
(*    numbers inside TLC's integer range.                                  *)
(***************************************************************************)
EXTENDS Integers, Sequences, FiniteSets, TLC

VARIABLES
    scanned,        \* the module-level Set of identity keys (line 82)
    verifyResult,   \* React state verifyResult (line 88)
    duplicateFlag,  \* React state duplicateFlag (line 89)
    pending,        \* click events queued for handleVerify, per token
    lastCall,       \* history: token and clock reading of the latest call
    prevDuplicate,  \* history: duplicateFlag before the latest call
    hits,           \* history: ledger-matched verify calls per record index
    firsts,         \* history: of those, calls that reported duplicate = false
    peak            \* history: most calls of one token in flight at once

vars == <<scanned, verifyResult, duplicateFlag, pending, lastCall,
          prevDuplicate, hits, firsts, peak>>

(***************************************************************************)
(* Bounds                                                                  *)
(***************************************************************************)
MaxVerify == 3      \* ledger-matched verify calls in a run
MaxInflight == 2    \* click events queued at once (SpecConc)

(***************************************************************************)
(* JavaScript values                                                       *)
(***************************************************************************)
JsNull == [type |-> "null"]
Undefined == [type |-> "undefined"]
JsNum(n) == [type |-> "number", v |-> n]
JsStr(s) == [type |-> "string", v |-> s]
JsObj(f) == [type |-> "object", fields |-> f]

\* !v is false exactly for truthy v
Truthy(v) ==
    CASE v.type = "null" -> FALSE
      [] v.type = "undefined" -> FALSE
      [] v.type = "number" -> v.v # 0
      [] v.type = "string" -> v.v # ""
      [] OTHER -> TRUE

\* the string a template literal puts for v (strings, and absent properties)
toString(v) ==
    CASE v.type = "string" -> v.v
      [] v.type = "undefined" -> "undefined"
      [] v.type = "null" -> "null"

\* property access v.f on a non-null value
Get(v, f) ==
    IF v.type = "object" /\ f \in DOMAIN v.fields THEN v.fields[f] ELSE Undefined

(***************************************************************************)
(* The ledger                                                              *)
(***************************************************************************)
mockLedger ==
    << [id |-> "MED-001", name |-> "Paracetamol 500mg (10 tabs)",
        batch |-> "B456789", exp |-> <<2027, 8, 31>>,
        checksum |-> "f9a2", status |-> "active"],
       [id |-> "MED-002", name |-> "Amoxicillin 250mg (10 caps)",
        batch |-> "B984321", exp |-> <<2027, 7, 31>>,
        checksum |-> "7c3d", status |-> "active"],
       [id |-> "MED-003", name |-> "Cetirizine 10mg (10 tabs)",
        batch |-> "C772210", exp |-> <<2027, 6, 30>>,
        checksum |-> "11be", status |-> "active"],
       [id |-> "MED-004", name |-> "Ibuprofen 200mg (10 tabs)",
        batch |-> "I220015", exp |-> <<2027, 6, 17>>,
        checksum |-> "c0de", status |-> "recalled"] >>

MARKER == "REDSTEEP-DEMO"

(***************************************************************************)
(* Token codec                                                             *)
(***************************************************************************)
Thrown == [thrown |-> TRUE]
Returned(v) == [thrown |-> FALSE, val |-> v]

JSONstringify(v) == [kind |-> "json", val |-> v]
JSONparse(text) ==
    IF text.kind = "json" THEN Returned(text.val) ELSE Thrown

btoa(text) == [pad |-> FALSE, body |-> [kind |-> "b64", text |-> text]]
atob(s) ==
    IF s.body.kind = "b64" THEN Returned(s.body.text) ELSE Thrown

trim(s) == [s EXCEPT !.pad = FALSE]

encodeToken(row) ==
    LET payload == JsObj([f \in {"t", "id", "b", "c"} |->
                            CASE f = "t" -> JsStr(MARKER)
                              [] f = "id" -> JsStr(row.id)
                              [] f = "b" -> JsStr(row.batch)
                              [] f = "c" -> JsStr(row.checksum)])
    IN  btoa(JSONstringify(payload))

decodeToken(token) ==
    LET text == atob(token)
        json == IF text.thrown THEN Thrown ELSE JSONparse(text.val)
    IN  IF json.thrown THEN JsNull                          \* catch (e)
        ELSE IF ~Truthy(json.val) \/ Get(json.val, "t") # JsStr(MARKER)
             THEN JsNull
        ELSE json.val

(***************************************************************************)
(* Dates                                                                   *)
(***************************************************************************)
\* day number of the civil date y-m-d (days since 1970-01-01)
DaysFromCivil(y, m, d) ==
    LET yy == IF m <= 2 THEN y - 1 ELSE y
        era == yy \div 400
        yoe == yy - era * 400
        mp == (m + 9) % 12
        doy == (153 * mp + 2) \div 5 + d - 1
        doe == yoe * 365 + yoe \div 4 - yoe \div 100 + doy
    IN  era * 146097 + doe - 719468

MsOfDay(h, mi, s, ms) == ((h * 60 + mi) * 60 + s) * 1000 + ms

\* new Date(y-m-d + "T" + hh:mm:ss[.mmm]), a local date-time
DateAt(ymd, h, mi, s, ms) ==
    [day |-> DaysFromCivil(ymd[1], ymd[2], ymd[3]), ms |-> MsOfDay(h, mi, s, ms)]

\* a > b on Dates
DateGT(a, b) == a.day > b.day \/ (a.day = b.day /\ a.ms > b.ms)

\* new Date(match.exp + "T23:59:59")
ExpDate(exp) == DateAt(exp, 23, 59, 59, 0)

(***************************************************************************)
(* handleVerify                                                            *)
(***************************************************************************)
INVALID_TOKEN == "Invalid or corrupted QR payload."
NO_MATCH == "No matching batch on ledger (possible counterfeit)."
INVALID_RECALLED == "Batch is recalled by manufacturer."
INVALID_EXPIRED == "Medicine is expired."

\* find that compares id and batch and forgets the checksum
findIdAndBatch(decoded) ==
    LET found == {i \in DOMAIN mockLedger :
                    /\ JsStr(mockLedger[i].id) = Get(decoded, "id")
                    /\ JsStr(mockLedger[i].batch) = Get(decoded, "b")}
    IN  IF found = {} THEN 0
        ELSE CHOOSE i \in found : \A j \in found : i <= j

\* mockLedger.find(r => r.id === decoded.id && r.batch === decoded.b &&
\* r.checksum === decoded.c): the index of the first such record, 0 for
\* undefined
find(decoded) ==
    LET found == {i \in DOMAIN mockLedger :
                    /\ JsStr(mockLedger[i].id) = Get(decoded, "id")
                    /\ JsStr(mockLedger[i].batch) = Get(decoded, "b")
                    /\ JsStr(mockLedger[i].checksum) = Get(decoded, "c")}
    IN  IF found = {} THEN 0
        ELSE CHOOSE i \in found : \A j \in found : i <= j

\* `${decoded.id}-${decoded.b}-${decoded.c}`
key(decoded) ==
    toString(Get(decoded, "id")) \o "-" \o toString(Get(decoded, "b"))
        \o "-" \o toString(Get(decoded, "c"))

\* a membership test that never finds the key
hasNever(seen, k) == FALSE

\* scanned.has(key)
has(seen, k) == k \in seen

\* an insertion that evicts the keys recorded before
addEvicting(seen, k) == {k}

\* scanned.add(key)
add(seen, k) == seen \cup {k}

\* the handler without its setDuplicateFlag(false): the flag is left as found
keepDuplicateFlag(flag) == flag

\* setDuplicateFlag(false) on entry
resetDuplicateFlag(flag) == FALSE

\* the rules with the expiry test ahead of the recall test
evaluateExpiryFirst(match, now) ==
    LET exp == ExpDate(match.exp)
        isExpired == DateGT(now, exp)
    IN  IF isExpired
        THEN [ok |-> FALSE, reason |-> INVALID_EXPIRED, data |-> match]
        ELSE IF match.status = "recalled"
        THEN [ok |-> FALSE, reason |-> INVALID_RECALLED, data |-> match]
        ELSE [ok |-> TRUE, data |-> match]

\* the business rules, lines 126-139
evaluate(match, now) ==
    LET exp == ExpDate(match.exp)
        isExpired == DateGT(now, exp)
    IN  IF match.status = "recalled"
        THEN [ok |-> FALSE, reason |-> INVALID_RECALLED, data |-> match]
        ELSE IF isExpired
        THEN [ok |-> FALSE, reason |-> INVALID_EXPIRED, data |-> match]
        ELSE [ok |-> TRUE, data |-> match]

\* handleVerify with the duplicate tracking moved ahead of the ledger lookup
handleVerifyRecordFirst(token, now, flag, seen) ==
    LET flag0 == resetDuplicateFlag(flag)
        decoded == decodeToken(trim(token))
    IN  IF ~Truthy(decoded)
        THEN [result |-> [ok |-> FALSE, reason |-> INVALID_TOKEN],
              flag |-> flag0, seen |-> seen]
        ELSE LET m == find(decoded)
                 k == key(decoded)
                 dup == has(seen, k)
                 seen1 == IF dup THEN seen ELSE add(seen, k)
             IN  IF m = 0
                 THEN [result |-> [ok |-> FALSE, reason |-> NO_MATCH],
                       flag |-> flag0, seen |-> seen1]
                 ELSE [result |-> evaluate(mockLedger[m], now),
                       flag |-> IF dup THEN TRUE ELSE flag0,
                       seen |-> seen1]

\* handleVerify with the duplicate tracking moved behind the business rules,
\* whose rejections return before it
handleVerifyRulesFirst(token, now, flag, seen) ==
    LET flag0 == resetDuplicateFlag(flag)
        decoded == decodeToken(trim(token))
    IN  IF ~Truthy(decoded)
        THEN [result |-> [ok |-> FALSE, reason |-> INVALID_TOKEN],
              flag |-> flag0, seen |-> seen]
        ELSE LET m == find(decoded)
             IN  IF m = 0
                 THEN [result |-> [ok |-> FALSE, reason |-> NO_MATCH],
                       flag |-> flag0, seen |-> seen]
                 ELSE LET k == key(decoded)
                          dup == has(seen, k)
                          verdict == evaluate(mockLedger[m], now)
                      IN  IF ~verdict.ok
                          THEN [result |-> verdict, flag |-> flag0, seen |-> seen]
                          ELSE [result |-> verdict,
                                flag |-> IF dup THEN TRUE ELSE flag0,
                                seen |-> IF dup THEN seen ELSE add(seen, k)]

\* One run of handleVerify(token) with the clock reading now, from the
\* state (flag, seen): the values of verifyResult, duplicateFlag and scanned
\* it leaves.
handleVerify(token, now, flag, seen) ==
    LET flag0 == resetDuplicateFlag(flag)
        decoded == decodeToken(trim(token))
    IN  IF ~Truthy(decoded)
        THEN [result |-> [ok |-> FALSE, reason |-> INVALID_TOKEN],
              flag |-> flag0, seen |-> seen]
        ELSE LET m == find(decoded)
             IN  IF m = 0
                 THEN [result |-> [ok |-> FALSE, reason |-> NO_MATCH],
                       flag |-> flag0, seen |-> seen]
                 ELSE LET k == key(decoded)
                          dup == has(seen, k)
                      IN  [result |-> evaluate(mockLedger[m], now),
                           flag |-> IF dup THEN TRUE ELSE flag0,
                           seen |-> IF dup THEN seen ELSE add(seen, k)]

(***************************************************************************)
(* Inputs: the token strings and clock readings the handler is run on      *)
(***************************************************************************)
\* the token whose base64 text is the JSON object with the properties
\* present, tag t and fields (id, b, c)
TokenOf(present, t, id, b, c) ==
    btoa(JSONstringify(JsObj([f \in present |->
            CASE f = "t" -> JsStr(t)
              [] f = "id" -> JsStr(id)
              [] f = "b" -> JsStr(b)
              [] f = "c" -> JsStr(c)])))

AllFields == {"t", "id", "b", "c"}
Padded(token) == [token EXCEPT !.pad = TRUE]

LedgerTokens == {encodeToken(mockLedger[i]) : i \in DOMAIN mockLedger}

\* two fields of MED-001 with the third of another record or of none
NearMissTokens ==
    { TokenOf(AllFields, MARKER, "MED-002", "B456789", "f9a2"),
      TokenOf(AllFields, MARKER, "MED-001", "B984321", "f9a2"),
      TokenOf(AllFields, MARKER, "MED-001", "B456789", "7c3d"),
      TokenOf(AllFields, MARKER, "MED-001", "B456789", "F9A2") }

\* the payload of MED-001 with a wrong or absent tag, or an absent field
BadEnvelopeTokens ==
    { TokenOf(AllFields, "redsteep-demo", "MED-001", "B456789", "f9a2"),
      TokenOf({"id", "b", "c"}, MARKER, "MED-001", "B456789", "f9a2"),
      TokenOf({"t", "b", "c"}, MARKER, "MED-001", "B456789", "f9a2"),
      TokenOf({"t", "id", "c"}, MARKER, "MED-001", "B456789", "f9a2"),
      TokenOf({"t", "id", "b"}, MARKER, "MED-001", "B456789", "f9a2"),
      TokenOf({"t"}, MARKER, "MED-001", "B456789", "f9a2") }

\* claims that equal no ledger record and whose fields, joined with "-",
\* spell the key of MED-001
AliasTokens ==
    { TokenOf(AllFields, MARKER, "MED", "001-B456789", "f9a2"),
      TokenOf(AllFields, MARKER, "MED", "001", "B456789-f9a2") }

GarbageTokens ==
    { [pad |-> FALSE, body |-> [kind |-> "garbage"]],
      btoa([kind |-> "garbage"]),
      btoa(JSONstringify(JsNull)),
      btoa(JSONstringify(JsNum(7))) }

Tokens ==
    LedgerTokens \cup NearMissTokens \cup AliasTokens \cup BadEnvelopeTokens
        \cup GarbageTokens
        \cup {Padded(encodeToken(mockLedger[1]))}

\* clock readings: well before every expiry, around the end of the expiry
\* day of MED-001, and after it
Instants ==
    { DateAt(<<2026, 1, 1>>, 0, 0, 0, 0),
      DateAt(<<2027, 8, 31>>, 23, 59, 59, 0),
      DateAt(<<2027, 8, 31>>, 23, 59, 59, 1),
      DateAt(<<2027, 8, 31>>, 23, 59, 59, 999),
      DateAt(<<2027, 9, 1>>, 0, 0, 0, 0),
      DateAt(<<2027, 9, 2>>, 0, 0, 0, 0) }

\* the tokens clicked while other clicks are queued, by position
ConcTokens ==
    << encodeToken(mockLedger[1]), encodeToken(mockLedger[4]),
       TokenOf(AllFields, MARKER, "MED-001", "B456789", "7c3d") >>

ConcInstants ==
    { DateAt(<<2026, 1, 1>>, 0, 0, 0, 0), DateAt(<<2027, 9, 2>>, 0, 0, 0, 0) }

(***************************************************************************)
(* History                                                                 *)
(***************************************************************************)
\* the JSON payload a token carries, Undefined when it carries none
PayloadOf(token) ==
    IF token.body.kind = "b64" /\ token.body.text.kind = "json"
    THEN token.body.text.val ELSE Undefined

\* the ledger record a token claims: the index of the record whose id,
\* batch and checksum are the payload's id, b and c, when the payload is
\* tagged with the marker; 0 when there is none
IdentityOf(token) ==
    LET p == PayloadOf(token)
        same == {i \in DOMAIN mockLedger :
                    /\ Get(p, "t") = JsStr(MARKER)
                    /\ Get(p, "id") = JsStr(mockLedger[i].id)
                    /\ Get(p, "b") = JsStr(mockLedger[i].batch)
                    /\ Get(p, "c") = JsStr(mockLedger[i].checksum)}
    IN  IF same = {} THEN 0 ELSE CHOOSE i \in same : TRUE

NoCall == [called |-> FALSE]

\* the ledger-matched calls made so far
TotalHits ==
    LET Sum[S \in SUBSET DOMAIN mockLedger] ==
            IF S = {} THEN 0
            ELSE LET i == CHOOSE x \in S : TRUE IN hits[i] + Sum[S \ {i}]
    IN  Sum[DOMAIN mockLedger]

\* new Date() is reached only on a ledger hit (line 127); NoClock stands for
\* the clock of a run that does not read it
NoClock == [day |-> 0, ms |-> 0]
ReadsClock(token) == find(decodeToken(trim(token))) # 0
ClockReadings(token, instants) ==
    IF ReadsClock(token) THEN instants ELSE {NoClock}

(***************************************************************************)
(* Specifications                                                          *)
(***************************************************************************)
InitEngine ==
    /\ scanned = {}
    /\ verifyResult = JsNull
    /\ duplicateFlag = FALSE
    /\ pending = [t \in DOMAIN ConcTokens |-> 0]
    /\ lastCall = NoCall
    /\ prevDuplicate = FALSE
    /\ hits = [i \in DOMAIN mockLedger |-> 0]
    /\ firsts = [i \in DOMAIN mockLedger |-> 0]
    /\ peak = [t \in DOMAIN ConcTokens |-> 0]

Init == InitEngine

\* the state change of one run of handleVerify(token) reading the clock as now
Run(token, now) ==
    LET out == handleVerify(token, now, duplicateFlag, scanned)
        i == IdentityOf(token)
    IN  /\ i # 0 => TotalHits < MaxVerify
        /\ verifyResult' = out.result
        /\ duplicateFlag' = out.flag
        /\ scanned' = out.seen
        /\ lastCall' = [called |-> TRUE, token |-> token, now |-> now]
        /\ prevDuplicate' = duplicateFlag
        /\ hits' = IF i = 0 THEN hits ELSE [hits EXCEPT ![i] = @ + 1]
        /\ firsts' = IF i = 0 \/ out.flag THEN firsts
                     ELSE [firsts EXCEPT ![i] = @ + 1]

\* the Verify button is clicked with token in the input box at the clock
\* reading now, and the handler runs
HandleVerify ==
    \E token \in Tokens : \E now \in ClockReadings(token, Instants) :
        /\ Run(token, now)
        /\ UNCHANGED <<pending, peak>>

Next == HandleVerify

Spec == Init /\ [][Next]_vars

\* Several verifications in flight: clicks queue as events, and the event
\* loop runs the handler of one queued event at a time, to completion.
InFlight == LET Sum[S \in SUBSET DOMAIN ConcTokens] ==
                    IF S = {} THEN 0
                    ELSE LET t == CHOOSE x \in S : TRUE
                         IN  pending[t] + Sum[S \ {t}]
            IN  Sum[DOMAIN ConcTokens]

Click ==
    \E t \in DOMAIN ConcTokens :
        /\ InFlight < MaxInflight
        /\ pending' = [pending EXCEPT ![t] = @ + 1]
        /\ peak' = [peak EXCEPT ![t] =
                        IF pending[t] + 1 > @ THEN pending[t] + 1 ELSE @]
        /\ UNCHANGED <<scanned, verifyResult, duplicateFlag, lastCall,
                       prevDuplicate, hits, firsts>>

Dispatch ==
    \E t \in DOMAIN ConcTokens :
      \E now \in ClockReadings(ConcTokens[t], ConcInstants) :
        /\ pending[t] > 0
        /\ Run(ConcTokens[t], now)
        /\ pending' = [pending EXCEPT ![t] = @ - 1]
        /\ UNCHANGED peak

NextConc == Click \/ Dispatch

SpecConc == Init /\ [][NextConc]_vars

(***************************************************************************)
(* Properties                                                              *)
(***************************************************************************)
Called == lastCall.called
HasData == "data" \in DOMAIN verifyResult
Reason == IF "reason" \in DOMAIN verifyResult THEN verifyResult.reason ELSE ""
LastIdentity == IF Called THEN IdentityOf(lastCall.token) ELSE 0

\* the identity key of ledger record i, written out: id-batch-checksum
KeyOfRecord(i) ==
    mockLedger[i].id \o "-" \o mockLedger[i].batch \o "-" \o mockLedger[i].checksum
LedgerKeys == {KeyOfRecord(i) : i \in DOMAIN mockLedger}

\* C1: for a claim identity that matches a ledger record, the first verify
\* reports duplicate = false and the second and every later verify reports
\* duplicate = true, whatever was verified in between; a key once in the
\* seen-set is never removed.
C1_FirstFalseThenTrue ==
    /\ [](LastIdentity # 0 => duplicateFlag = (hits[LastIdentity] >= 2))
    /\ [](\A i \in DOMAIN mockLedger : hits[i] >= 1 => KeyOfRecord(i) \in scanned)
    /\ [][scanned \subseteq scanned']_vars

C1_Witness ==
    /\ LastIdentity = 1
    /\ hits[1] = 2 /\ hits[2] = 1
    /\ duplicateFlag
    /\ {KeyOfRecord(1), KeyOfRecord(2)} \subseteq scanned

\* C2: a verify that ends in INVALID_TOKEN or NO_MATCH leaves the seen-set
\* unchanged; every key in the seen-set is the identity key of a ledger
\* record, and the seen-set holds exactly the keys of the records that were
\* matched, so invalid or non-matching tokens never change a later duplicate
\* flag.
C2_RejectsLeaveSeenSet ==
    /\ [](scanned \subseteq LedgerKeys)
    /\ [](scanned = {KeyOfRecord(i) : i \in {j \in DOMAIN mockLedger : hits[j] >= 1}})
    /\ [][Reason' \in {INVALID_TOKEN, NO_MATCH} => scanned' = scanned]_vars

C2_Witness ==
    /\ Called
    /\ Reason = NO_MATCH
    /\ lastCall.token \in NearMissTokens
    /\ scanned = {KeyOfRecord(1)}
    /\ hits[1] = 2

\* C3: when several verifications of the same not-yet-seen identity are in
\* flight at once, in every order of handling exactly one of them reports
\* duplicate = false and all the others report duplicate = true.
C3_ExactlyOneFirst ==
    \A i \in DOMAIN mockLedger : firsts[i] = IF hits[i] >= 1 THEN 1 ELSE 0

C3_Witness ==
    \E t \in DOMAIN ConcTokens :
        /\ peak[t] >= 2
        /\ \A u \in DOMAIN ConcTokens : pending[u] = 0
        /\ IdentityOf(ConcTokens[t]) # 0
        /\ hits[IdentityOf(ConcTokens[t])] >= 2
        /\ firsts[IdentityOf(ConcTokens[t])] = 1

\* C4: for a matched active record the verdict is INVALID_EXPIRED exactly
\* when now is at or after 00:00:00 of the day following the exp day; every
\* instant of the exp day, those of its final second included, yields VALID.
C4_ExpiredIffAfterExpDay ==
    (Called /\ HasData /\ verifyResult.data.status = "active") =>
        LET expDay == DaysFromCivil(verifyResult.data.exp[1],
                                    verifyResult.data.exp[2],
                                    verifyResult.data.exp[3])
        IN  /\ (Reason = INVALID_EXPIRED) <=> (lastCall.now.day > expDay)
            /\ verifyResult.ok <=> (lastCall.now.day <= expDay)

\* C5: a matched record whose status is recalled is rejected as recalled at
\* every instant, those after its expiry date included, and INVALID_EXPIRED
\* is produced only for records whose status is active.
C5_RecallBeforeExpiry ==
    /\ (Called /\ HasData /\ verifyResult.data.status = "recalled") =>
            (~verifyResult.ok /\ Reason = INVALID_RECALLED)
    /\ Reason = INVALID_EXPIRED =>
            (HasData /\ verifyResult.data.status = "active")

C5_Witness ==
    /\ Called /\ HasData
    /\ verifyResult.data.status = "recalled"
    /\ DateGT(lastCall.now, DateAt(verifyResult.data.exp, 23, 59, 59, 999))
    /\ Reason = INVALID_RECALLED

\* C6: a token whose payload carries the right marker but lacks any of id,
\* batch or checksum is a decode failure: verify answers INVALID_TOKEN for
\* it, not NO_MATCH.
C6_MissingFieldIsInvalidToken ==
    LET p == PayloadOf(lastCall.token)
    IN  (/\ Called
         /\ Get(p, "t") = JsStr(MARKER)
         /\ \E f \in {"id", "b", "c"} : Get(p, f) = Undefined)
        => Reason = INVALID_TOKEN

\* C7: verify reaches a matched record only if the record's id, batch and
\* checksum all equal the claim's; a claim that agrees with a record on two
\* of the three and equals no record yields NO_MATCH with no record.
C7_ExactTripleMatch ==
    Called =>
        LET p == PayloadOf(lastCall.token)
        IN  /\ HasData =>
                /\ Get(p, "id") = JsStr(verifyResult.data.id)
                /\ Get(p, "b") = JsStr(verifyResult.data.batch)
                /\ Get(p, "c") = JsStr(verifyResult.data.checksum)
            /\ lastCall.token \in NearMissTokens =>
                (~HasData /\ ~verifyResult.ok /\ Reason = NO_MATCH)

C7_Witness ==
    /\ Called
    /\ lastCall.token = TokenOf(AllFields, MARKER, "MED-001", "B456789", "7c3d")
    /\ Reason = NO_MATCH
    /\ ~HasData

\* C8: an outcome rejected for recall or expiry carries the matched record
\* and the duplicate flag; an outcome rejected as INVALID_TOKEN or NO_MATCH
\* carries no record and no duplicate = true, also right after a call that
\* reported duplicate = true.
C8_OutcomeShape ==
    Called =>
        /\ Reason \in {INVALID_RECALLED, INVALID_EXPIRED} =>
                /\ HasData
                /\ LastIdentity # 0
                /\ verifyResult.data = mockLedger[LastIdentity]
                /\ duplicateFlag = (hits[LastIdentity] >= 2)
        /\ Reason \in {INVALID_TOKEN, NO_MATCH} => (~HasData /\ ~duplicateFlag)
        /\ verifyResult.ok => HasData

C8_Witness ==
    /\ Called
    /\ prevDuplicate
    /\ Reason \in {INVALID_TOKEN, NO_MATCH}
    /\ ~duplicateFlag

\* C9: duplicate tracking runs on every ledger hit whatever the verdict: a
\* verify rejected as recalled or expired still records the key and reports
\* duplicate = true for an identity presented before; and the duplicate flag
\* never changes ok or the reason: the same token at the same instant gets
\* the same result on its first and on its repeated presentation.
C9_TrackingIndependentOfVerdict ==
    /\ []((LastIdentity # 0 /\ ~verifyResult.ok) =>
            /\ KeyOfRecord(LastIdentity) \in scanned
            /\ firsts[LastIdentity] = 1
            /\ duplicateFlag = (hits[LastIdentity] >= 2))
    /\ [][(Called /\ lastCall' = lastCall) => verifyResult' = verifyResult]_vars

C9_Witness ==
    /\ LastIdentity = 1
    /\ hits[1] = 3
    /\ ~verifyResult.ok
    /\ Reason = INVALID_EXPIRED
    /\ duplicateFlag

====
